---- MODULE Spec2Model ----
(***************************************************************************)
(* commitmonk: the task scheduler (scheduler/scheduler.go) on top of the   *)
(* task registry (db/db.go).                                               *)
(*                                                                         *)
(* Time is counted in whole seconds.  The clock is simulated: it advances  *)
(* by one ticker period at a time and the scheduler loop handles each tick *)
(* at the second it fires, so every time.Now() taken while one tick is     *)
(* handled reads the same value.                                           *)
(***************************************************************************)
EXTENDS Integers, Sequences, FiniteSets, TLC

VARIABLES
    now,          \* the simulated wall clock, in seconds
    tickPending,  \* a tick waits in ticker.C (run, scheduler.go:125)
    registry,     \* the rows of table tasks, by id (db.go:35-43)
    tasks,        \* TaskRunner.tasks: id -> taskState
    lastCheck,    \* TaskRunner.lastCheck
    stopClosed,   \* TaskRunner.stopCh has been closed
    pc,           \* where the scheduler is: new, failed, select, check, process, exited
    checkResult,  \* outcome of the latest reconciliation attempt: none, skipped, ok, err
    inflight,     \* the executeTask goroutines that have not returned, by slot
    tickLog,      \* the task IDs handed to "go executeTask" by the latest processTasks call
    hist,         \* per live entry: when and from which record it was created, dispatches since,
                  \* time of the latest dispatch (or creation) and the interval held then
    purged,       \* IDs found absent by a completed reconciliation and not registered since
    edits,        \* number of registry operations run since the scheduler was constructed
    seen,         \* the rows read by the latest completed reconciliation, by id
    upserted,     \* paths AddTask replaced the row of since that reconciliation
    repo,         \* the working tree and index of one repository: file -> status
    runs,         \* the executions of the pipeline on that repository, by run number
    commits,      \* the commits the executions created, in order
    hasCreds,     \* llm.Client.HasCredentials(): an API key is configured
    runTask       \* the record the executions of the pipeline are dispatched with

schedVars == <<now, tickPending, registry, tasks, lastCheck, stopClosed, pc,
               checkResult, inflight, tickLog, hist, purged, edits, seen, upserted>>

execVars == <<repo, runs, commits, hasCreds, runTask>>

vars == <<schedVars, execVars>>

----------------------------------------------------------------------------
(* Bounds of the model *)

MaxTime == 12
MaxSteadyTime == 125
MaxID == 2
MaxInFlight == 2
MaxEdits == 2

(* Program constants, in seconds *)

TickPeriod == 1
CheckWindow == 10

----------------------------------------------------------------------------
(* time.ParseDuration, on strings given as sequences of characters.        *)
(* Durations are whole seconds: the units s, m and h are known, and a      *)
(* string is [-+]?(digits unit)+ or "0".                                   *)

DigitVal ==
    [c \in {"0", "1", "2", "3", "4", "5", "6", "7", "8", "9"} |->
        CASE c = "0" -> 0 [] c = "1" -> 1 [] c = "2" -> 2 [] c = "3" -> 3
          [] c = "4" -> 4 [] c = "5" -> 5 [] c = "6" -> 6 [] c = "7" -> 7
          [] c = "8" -> 8 [] c = "9" -> 9]

unitMap == (<<"s">> :> 1) @@ (<<"m">> :> 60) @@ (<<"h">> :> 3600)

IsDigit(c) == c \in DOMAIN DigitVal

RECURSIVE leadingInt(_, _)
leadingInt(s, x) ==
    IF s # <<>> /\ IsDigit(Head(s))
    THEN leadingInt(Tail(s), x * 10 + DigitVal[Head(s)])
    ELSE [x |-> x, rem |-> s]

RECURSIVE unitName(_, _)
unitName(s, u) ==
    IF s # <<>> /\ ~IsDigit(Head(s)) /\ Head(s) # "."
    THEN unitName(Tail(s), u \o <<Head(s)>>)
    ELSE [u |-> u, rem |-> s]

ParseError == [ok |-> FALSE, d |-> 0]

RECURSIVE parseTerms(_, _)
parseTerms(s, d) ==
    IF s = <<>> THEN [ok |-> TRUE, d |-> d]
    ELSE IF ~IsDigit(Head(s)) THEN ParseError
    ELSE LET li == leadingInt(s, 0)
             un == unitName(li.rem, <<>>)
         IN  IF un.u \notin DOMAIN unitMap THEN ParseError
             ELSE parseTerms(un.rem, d + li.x * unitMap[un.u])

\* time.ParseDuration
parseDuration(s) ==
    LET neg  == s # <<>> /\ Head(s) = "-"
        body == IF s # <<>> /\ Head(s) \in {"-", "+"} THEN Tail(s) ELSE s
        p    == parseTerms(body, 0)
    IN  IF body = <<"0">> THEN [ok |-> TRUE, d |-> 0]
        ELSE IF body = <<>> THEN ParseError
        ELSE IF ~p.ok THEN ParseError
        ELSE [ok |-> TRUE, d |-> IF neg THEN 0 - p.d ELSE p.d]

----------------------------------------------------------------------------
(* db.Task and the registry *)

Paths == {"/r1", "/r2"}

Every2s == <<"2", "s">>
Every3s == <<"3", "s">>
EveryBad == <<"5", "x">>
EveryNeg == <<"-", "2", "s">>
Every1m == <<"1", "m">>
Every2m == <<"2", "m">>

\* The interval strings of the records of the model
EveryStrings == {Every2s, Every3s, EveryBad, EveryNeg, Every1m, Every2m}

\* time.ParseDuration on those strings, parsed once
Durations == [s \in EveryStrings |-> parseDuration(s)]

ParseDuration(s) == Durations[s]

\* The record AddTask is called with; the other fields follow the interval
\* so that two records of one path differ in every field.
Task(id, path, every) ==
    [ID |-> id, Path |-> path, Every |-> every,
     AutoAdd |-> (every # Every3s),
     AutoPush |-> (every = Every3s),
     StaticMsg |-> IF every = Every3s THEN "" ELSE "wip",
     ExcludePatterns |-> IF every = Every3s THEN "*.log" ELSE ""]

\* What AddTask is called with: valid, changed, unparseable and negative
\* intervals (AddTask itself checks nothing).
TaskInputs ==
    {Task(0, "/r1", Every2s), Task(0, "/r1", Every3s),
     Task(0, "/r2", Every2s), Task(0, "/r2", EveryBad), Task(0, "/r2", EveryNeg)}

RegIDs(reg) == DOMAIN reg

MaxOf(S) == IF S = {} THEN 0 ELSE CHOOSE x \in S : \A y \in S : y <= x

\* INSERT OR REPLACE: the new row takes rowid max+1, the row that holds the
\* same path is deleted.
InsertOrReplace(reg, t) ==
    LET newId == MaxOf(RegIDs(reg)) + 1
        keep  == {id \in RegIDs(reg) : reg[id].Path # t.Path}
    IN  [id \in keep \cup {newId} |->
            IF id = newId THEN [t EXCEPT !.ID = newId] ELSE reg[id]]

DeleteWhere(reg, ids) == [id \in RegIDs(reg) \ ids |-> reg[id]]

RECURSIVE rowsFrom(_, _)
rowsFrom(reg, ids) ==
    IF ids = {} THEN <<>>
    ELSE LET lo == CHOOSE x \in ids : \A y \in ids : x <= y
         IN  <<reg[lo]>> \o rowsFrom(reg, ids \ {lo})

\* GetAllTasks: the rows in rowid order, or an error and no rows.
GetAllTasks(reg, fail) ==
    IF fail THEN [err |-> TRUE, rows |-> <<>>]
    ELSE [err |-> FALSE, rows |-> rowsFrom(reg, RegIDs(reg))]

----------------------------------------------------------------------------
(* TaskRunner.loadTasks *)

\* NewState with the interval left out of the first run time.
NewStateNow(task, t, d) == [task |-> task, nextRun |-> t]

\* A new taskState: the record and its first run time.
NewState(task, t, d) == [task |-> task, nextRun |-> t + d]

\* MergeRow restarting the countdown of a known ID whose record changed.
MergeRowReschedule(task, m, t) ==
    LET p == ParseDuration(task.Every)
    IN  IF task.ID \in DOMAIN m
        THEN IF m[task.ID].task = task \/ ~p.ok
             THEN [m EXCEPT ![task.ID].task = task]
             ELSE [m EXCEPT ![task.ID] = [task |-> task, nextRun |-> t + p.d]]
        ELSE IF ~p.ok THEN m
             ELSE m @@ (task.ID :> [task |-> task, nextRun |-> t + p.d])

\* MergeRow scheduling a new ID only when its interval is at least a minute.
MergeRowMinMinute(task, m, t) ==
    IF task.ID \in DOMAIN m
    THEN [m EXCEPT ![task.ID].task = task]
    ELSE LET p == ParseDuration(task.Every)
         IN  IF ~p.ok \/ p.d < 60 THEN m
             ELSE m @@ (task.ID :> NewState(task, t, p.d))

\* The body of the loop over the rows: update the record of a known ID in
\* place, schedule a new ID when its interval parses, skip it otherwise.
MergeRow(task, m, t) ==
    IF task.ID \in DOMAIN m
    THEN [m EXCEPT ![task.ID].task = task]
    ELSE LET p == ParseDuration(task.Every)
         IN  IF ~p.ok THEN m
             ELSE m @@ (task.ID :> NewState(task, t, p.d))

\* mergeRows leaving the loop at the first new row whose interval does not
\* parse.
RECURSIVE mergeRowsBreak(_, _, _)
mergeRowsBreak(rows, m, t) ==
    IF rows = <<>> THEN m
    ELSE IF Head(rows).ID \notin DOMAIN m /\ ~ParseDuration(Head(rows).Every).ok
         THEN m
         ELSE mergeRowsBreak(Tail(rows), MergeRow(Head(rows), m, t), t)

RECURSIVE mergeRows(_, _, _)
mergeRows(rows, m, t) ==
    IF rows = <<>> THEN m
    ELSE mergeRows(Tail(rows), MergeRow(Head(rows), m, t), t)

currentTaskIDs(rows) == {rows[i].ID : i \in DOMAIN rows}

\* RemoveStale without the removal.
RemoveStaleNone(m, ids) == m

\* The second loop: drop the entries whose ID is not among the rows.
RemoveStale(m, ids) == [id \in DOMAIN m \cap ids |-> m[id]]

\* loadTasks going on with the rows it got when the read failed.
loadTasksIgnoreErr(res, m, lc, t) ==
    [err |-> res.err,
     tasks |-> RemoveStale(mergeRows(res.rows, m, t), currentTaskIDs(res.rows)),
     lastCheck |-> t]

\* loadTasks recording the time of the read before looking at its error.
loadTasksStampErr(res, m, lc, t) ==
    IF res.err
    THEN [err |-> TRUE, tasks |-> m, lastCheck |-> t]
    ELSE [err |-> FALSE,
          tasks |-> RemoveStale(mergeRows(res.rows, m, t), currentTaskIDs(res.rows)),
          lastCheck |-> t]

loadTasks(res, m, lc, t) ==
    IF res.err
    THEN [err |-> TRUE, tasks |-> m, lastCheck |-> lc]
    ELSE [err |-> FALSE,
          tasks |-> RemoveStale(mergeRows(res.rows, m, t), currentTaskIDs(res.rows)),
          lastCheck |-> t]

----------------------------------------------------------------------------
(* TaskRunner.processTasks *)

\* !now.Before(state.nextRun)
TaskDueOrEqual(state, t) == t >= state.nextRun

\* now.After(state.nextRun)
TaskDue(state, t) == t > state.nextRun

\* ProcessEntry rescheduling from the previous run time instead of now.
ProcessEntryFixedRate(id, acc, t) ==
    LET state == acc.tasks[id]
        p     == ParseDuration(state.task.Every)
    IN  IF ~(t > state.nextRun) THEN acc
        ELSE [tasks |-> IF p.ok
                        THEN [acc.tasks EXCEPT ![id].nextRun = state.nextRun + p.d]
                        ELSE [i \in DOMAIN acc.tasks \ {id} |-> acc.tasks[i]],
              out   |-> Append(acc.out, state.task)]

\* ProcessEntry starting the goroutine a second time after rescheduling.
ProcessEntryTwice(id, acc, t) ==
    LET state == acc.tasks[id]
        p     == ParseDuration(state.task.Every)
    IN  IF ~(t > state.nextRun) THEN acc
        ELSE [tasks |-> IF p.ok
                        THEN [acc.tasks EXCEPT ![id].nextRun = t + p.d]
                        ELSE [i \in DOMAIN acc.tasks \ {id} |-> acc.tasks[i]],
              out   |-> Append(Append(acc.out, state.task), state.task)]

\* ProcessEntry leaving a dispatched entry whose interval does not parse in
\* the schedule.
ProcessEntryKeep(id, acc, t) ==
    LET state == acc.tasks[id]
        p     == ParseDuration(state.task.Every)
    IN  IF ~TaskDue(state, t) THEN acc
        ELSE [tasks |-> IF p.ok
                        THEN [acc.tasks EXCEPT ![id].nextRun = t + p.d]
                        ELSE acc.tasks,
              out   |-> Append(acc.out, state.task)]

\* The body of the loop over r.tasks for one entry: a due entry is handed
\* to a new goroutine with a copy of its record, then rescheduled from its
\* own interval, or deleted when that interval does not parse.
ProcessEntry(id, acc, t) ==
    LET state == acc.tasks[id]
        p     == ParseDuration(state.task.Every)
    IN  IF ~TaskDue(state, t) THEN acc
        ELSE [tasks |-> IF p.ok
                        THEN [acc.tasks EXCEPT ![id].nextRun = t + p.d]
                        ELSE [i \in DOMAIN acc.tasks \ {id} |-> acc.tasks[i]],
              out   |-> Append(acc.out, state.task)]

\* range over the map: the keys come in an unspecified order, and a key
\* deleted before it is reached is not produced.
RECURSIVE rangeTasks(_, _, _)
rangeTasks(order, acc, t) ==
    IF order = <<>> THEN acc
    ELSE IF Head(order) \notin DOMAIN acc.tasks
         THEN rangeTasks(Tail(order), acc, t)
         ELSE rangeTasks(Tail(order), ProcessEntry(Head(order), acc, t), t)

Orders(S) ==
    {o \in [1..Cardinality(S) -> S] : \A i, j \in DOMAIN o : i # j => o[i] # o[j]}

\* The goroutines started by "go r.executeTask(state.task)": each gets the
\* lowest free slot and its own copy of the record.
FreeSlots(infl) == (1..MaxInFlight) \ DOMAIN infl

\* spawn skipping a task whose path already has an execution in flight.
RECURSIVE spawnExclusive(_, _)
spawnExclusive(out, infl) ==
    IF out = <<>> THEN infl
    ELSE IF \E x \in DOMAIN infl : infl[x].task.Path = Head(out).Path
         THEN spawnExclusive(Tail(out), infl)
         ELSE LET e == CHOOSE x \in FreeSlots(infl) : \A y \in FreeSlots(infl) : x <= y
              IN  spawnExclusive(Tail(out), infl @@ (e :> [task |-> Head(out)]))

RECURSIVE spawn(_, _)
spawn(out, infl) ==
    IF out = <<>> THEN infl
    ELSE LET e == CHOOSE x \in FreeSlots(infl) : \A y \in FreeSlots(infl) : x <= y
         IN  spawn(Tail(out), infl @@ (e :> [task |-> Head(out)]))

\* ExecTask reading the record of the live entry instead of its own copy.
ExecTaskLive(e, infl, m) ==
    IF infl[e].task.ID \in DOMAIN m THEN m[infl[e].task.ID].task ELSE infl[e].task

\* The record an execution works with: the by-value parameter of
\* executeTask.
ExecTask(e, infl, m) == infl[e].task

IDsOf(out) == [i \in DOMAIN out |-> out[i].ID]

----------------------------------------------------------------------------
(* strings: Split, TrimSpace, Trim on sequences of characters *)

RECURSIVE splitAt(_, _, _)
splitAt(s, cur, acc) ==
    IF s = <<>> THEN Append(acc, cur)
    ELSE IF Head(s) = ","
         THEN splitAt(Tail(s), <<>>, Append(acc, cur))
         ELSE splitAt(Tail(s), Append(cur, Head(s)), acc)

\* strings.Split(s, ",")
Split(s) == splitAt(s, <<>>, <<>>)

RECURSIVE TrimLeft(_, _)
TrimLeft(s, cutset) ==
    IF s # <<>> /\ Head(s) \in cutset THEN TrimLeft(Tail(s), cutset) ELSE s

RECURSIVE TrimRight(_, _)
TrimRight(s, cutset) ==
    IF s # <<>> /\ s[Len(s)] \in cutset
    THEN TrimRight(SubSeq(s, 1, Len(s) - 1), cutset)
    ELSE s

\* strings.Trim(s, cutset)
Trim(s, cutset) == TrimRight(TrimLeft(s, cutset), cutset)

\* strings.TrimSpace(s)
TrimSpace(s) == Trim(s, {" ", "\t", "\n"})

----------------------------------------------------------------------------
(* glob.Compile and Glob.Match for patterns of literals, "?" and "*";
   a "[" that is never closed does not compile *)

CompileError(p) ==
    \E i \in DOMAIN p : p[i] = "[" /\ \A j \in DOMAIN p : j > i => p[j] # "]"

RECURSIVE GlobMatch(_, _)
GlobMatch(p, s) ==
    IF p = <<>> THEN s = <<>>
    ELSE IF Head(p) = "*"
         THEN \E k \in 0..Len(s) : GlobMatch(Tail(p), SubSeq(s, k + 1, Len(s)))
         ELSE /\ s # <<>>
              /\ Head(p) = "?" \/ Head(p) = Head(s)
              /\ GlobMatch(Tail(p), Tail(s))

----------------------------------------------------------------------------
(* git.RepoManager on one repository.  A file is clean, untracked (new,
   not in the index), modified (tracked, changed in the worktree only),
   added (new, in the index), staged (tracked, the change is in the index)
   or removed (tracked, deleted from index and worktree). *)

\* The files of the repository the pipeline is modelled on
Files == {"a.go", "x.log"}

FilePath(f) ==
    IF f = "a.go" THEN <<"a", ".", "g", "o">> ELSE <<"x", ".", "l", "o", "g">>

\* FileStatus.Staging and FileStatus.Worktree of go-git's Status
Staging(st) ==
    CASE st = "untracked" -> "?"
      [] st = "added"     -> "A"
      [] st = "staged"    -> "M"
      [] st = "removed"   -> "D"
      [] OTHER            -> " "

Worktree(st) ==
    CASE st = "untracked" -> "?"
      [] st = "modified"  -> "M"
      [] OTHER            -> " "

Unmodified == " "

\* The paths Status reports
Status(rp) == {f \in Files : Staging(rp[f]) # Unmodified \/ Worktree(rp[f]) # Unmodified}

HasChanges(rp) ==
    \E f \in Status(rp) : Worktree(rp[f]) # Unmodified \/ Staging(rp[f]) # Unmodified

HasStagedChanges(rp) == \E f \in Status(rp) : Staging(rp[f]) # Unmodified

\* wt.AddGlob("."): every change of the worktree goes to the index
AddGlob(rp) ==
    [f \in Files |->
        CASE rp[f] = "untracked" -> "added"
          [] rp[f] = "modified"  -> "staged"
          [] OTHER               -> rp[f]]

\* wt.RemoveGlob(filePath) on one file: its index entry, if it has one, is
\* deleted together with the file in the worktree
RemoveGlob(st) ==
    CASE st = "added"               -> "clean"
      [] st \in {"staged", "modified"} -> "removed"
      [] OTHER                      -> st

\* applyPatterns going on with the next pattern after one that does not
\* compile.
RECURSIVE applyPatternsSkipInvalid(_, _)
applyPatternsSkipInvalid(patterns, rp) ==
    IF patterns = <<>> THEN [err |-> FALSE, repo |-> rp]
    ELSE LET pattern == TrimSpace(Head(patterns))
         IN  IF pattern = <<>> \/ CompileError(pattern)
             THEN applyPatternsSkipInvalid(Tail(patterns), rp)
             ELSE applyPatternsSkipInvalid(Tail(patterns),
                     [f \in Files |->
                         IF f \in Status(rp) /\ GlobMatch(pattern, FilePath(f))
                         THEN RemoveGlob(rp[f]) ELSE rp[f]])

\* The loop over the patterns of StageChanges
RECURSIVE applyPatterns(_, _)
applyPatterns(patterns, rp) ==
    IF patterns = <<>> THEN [err |-> FALSE, repo |-> rp]
    ELSE LET pattern == TrimSpace(Head(patterns))
         IN  IF pattern = <<>> THEN applyPatterns(Tail(patterns), rp)
             ELSE IF CompileError(pattern) THEN [err |-> TRUE, repo |-> rp]
             ELSE applyPatterns(Tail(patterns),
                     [f \in Files |->
                         IF f \in Status(rp) /\ GlobMatch(pattern, FilePath(f))
                         THEN RemoveGlob(rp[f]) ELSE rp[f]])

\* RepoManager.StageChanges; fail: the worktree cannot be read or written
StageChanges(rp, excludePatterns, fail) ==
    IF fail THEN [err |-> TRUE, repo |-> rp]
    ELSE IF excludePatterns = <<>> THEN [err |-> FALSE, repo |-> AddGlob(rp)]
    ELSE applyPatterns(Split(excludePatterns), AddGlob(rp))

\* The paths a commit of the index records
StagedPaths(rp) == {f \in Files : rp[f] \in {"added", "staged", "removed"}}

\* wt.Commit: the index becomes the new HEAD
AfterCommit(rp) == [f \in Files |-> IF f \in StagedPaths(rp) THEN "clean" ELSE rp[f]]

\* RepoManager.Commit; fail: wt.Commit returns an error; allowEmpty: the
\* go-git of the build creates a commit from an index equal to HEAD
\* instead of returning ErrEmptyCommit
Commit(rp, fail, allowEmpty) ==
    LET rp1 == IF HasStagedChanges(rp) THEN rp ELSE AddGlob(rp)
    IN  IF ~HasStagedChanges(rp1)
        THEN [err |-> "no staged changes", repo |-> rp1, paths |-> {}]
        ELSE IF fail \/ (StagedPaths(rp1) = {} /\ ~allowEmpty)
        THEN [err |-> "failed", repo |-> rp1, paths |-> {}]
        ELSE [err |-> "", repo |-> AfterCommit(rp1), paths |-> StagedPaths(rp1)]

\* Push treating "already up to date" as an error.
PushStrict(res) == res # "ok"

\* RepoManager.Push: the error it returns, from the result of repo.Push
Push(res) == res \notin {"ok", "uptodate"}

----------------------------------------------------------------------------
(* llm.Client *)

\* The content of the first choice of a reply
Replies ==
    {<<"f", "i", "x">>,
     <<" ", "\"", "f", "i", "x", "\"", "\n">>,
     <<"\"", "\"">>}

\* Client.GenerateCommitMessage after the credentials check; reply.err:
\* the request failed, the status was not 200, the body did not decode or
\* held no choice
GenerateCommitMessage(reply) ==
    IF reply.err THEN [err |-> TRUE, message |-> <<>>]
    ELSE [err |-> FALSE, message |-> Trim(TrimSpace(reply.content), {"\"", "'"})]

----------------------------------------------------------------------------
(* TaskRunner.executeTask, one operator per step *)

\* The record an execution is started with
RunTask(autoAdd, autoPush, staticMsg, exclude) ==
    [ID |-> 1, Path |-> "/r1", Every |-> Every1m,
     AutoAdd |-> autoAdd, AutoPush |-> autoPush,
     StaticMsg |-> staticMsg, ExcludePatterns |-> exclude]

\* Values of --exclude: none; one pattern with blanks and empty items
\* around it; a pattern, one that does not compile and a third one
ExcludeInputs ==
    {<<>>,
     <<" ", "*", ".", "l", "o", "g", ",", " ", ",">>,
     <<"*", ".", "l", "o", "g", ",", "[", ",", "a", ".", "g", "o">>}

RunTasks ==
    {RunTask(a, p, m, x) :
        a \in BOOLEAN, p \in BOOLEAN, m \in {"", "wip"}, x \in ExcludeInputs}

NoMsg == [src |-> "none", static |-> "", gen |-> <<>>]

\* The locals of executeTask at its first statement
NewRun(task) ==
    [task |-> task, pc |-> "detect", hasChanges |-> "unset", hasStaged |-> "unset",
     gen |-> [tried |-> FALSE, err |-> FALSE, message |-> <<>>],
     msg |-> NoMsg, did |-> {}, outcome |-> "running", pushRes |-> "none"]

Done(run, outcome, calls) ==
    [run EXCEPT !.pc = "done", !.outcome = outcome, !.did = @ \cup calls]

\* DetectStep going on to staging whatever HasChanges returned.
DetectStepNoSkip(run, rp, io) ==
    IF io = "open" THEN Done(run, "open error", {})
    ELSE IF io = "status" THEN Done(run, "status error", {"HasChanges"})
    ELSE [run EXCEPT !.hasChanges = IF HasChanges(rp) THEN "yes" ELSE "no",
                     !.pc = "stage", !.did = @ \cup {"HasChanges"}]

\* NewRepoManager and HasChanges, up to "No changes detected, skipping"
DetectStep(run, rp, io) ==
    IF io = "open" THEN Done(run, "open error", {})
    ELSE IF io = "status" THEN Done(run, "status error", {"HasChanges"})
    ELSE IF ~HasChanges(rp)
         THEN [Done(run, "no changes", {"HasChanges"}) EXCEPT !.hasChanges = "no"]
         ELSE [run EXCEPT !.hasChanges = "yes", !.pc = "stage",
                          !.did = @ \cup {"HasChanges"}]

\* The staging decision: StageChanges with auto-add, else HasStagedChanges
StageStep(run, rp, fail) ==
    IF run.task.AutoAdd
    THEN LET s == StageChanges(rp, run.task.ExcludePatterns, fail)
         IN  [run  |-> IF s.err THEN Done(run, "staging error", {"StageChanges"})
                       ELSE [run EXCEPT !.pc = "diff", !.did = @ \cup {"StageChanges"}],
              repo |-> s.repo]
    ELSE [run  |-> IF fail THEN Done(run, "status error", {"HasStagedChanges"})
                   ELSE IF ~HasStagedChanges(rp)
                   THEN [Done(run, "no staged changes, skipping", {"HasStagedChanges"})
                            EXCEPT !.hasStaged = "no"]
                   ELSE [run EXCEPT !.hasStaged = "yes", !.pc = "diff",
                                    !.did = @ \cup {"HasStagedChanges"}],
          repo |-> rp]

\* GetDiff
DiffStep(run, fail) ==
    IF fail THEN Done(run, "diff error", {"GetDiff"})
    ELSE [run EXCEPT !.pc = "message", !.did = @ \cup {"GetDiff"}]

\* ResolveMessage using a static message, when there is one, without
\* asking the generator.
ResolveMessageStaticFirst(creds, staticMsg, reply) ==
    LET g == GenerateCommitMessage(reply)
    IN  IF staticMsg # ""
        THEN [ok |-> TRUE, tried |-> FALSE, err |-> FALSE, static |-> TRUE,
              msg |-> [src |-> "static", static |-> staticMsg, gen |-> <<>>]]
        ELSE IF creds /\ ~g.err
        THEN [ok |-> TRUE, tried |-> TRUE, err |-> FALSE, static |-> TRUE,
              msg |-> [src |-> "llm", static |-> "", gen |-> g.message]]
        ELSE [ok |-> FALSE, tried |-> creds, err |-> creds, static |-> TRUE,
              msg |-> NoMsg]

\* The choice of the commit message: whether the generator was called and
\* failed, whether task.StaticMsg was looked at, and the message if any
ResolveMessage(creds, staticMsg, reply) ==
    LET g == GenerateCommitMessage(reply)
    IN  IF creds
        THEN IF ~g.err
             THEN [ok |-> TRUE, tried |-> TRUE, err |-> FALSE, static |-> FALSE,
                   msg |-> [src |-> "llm", static |-> "", gen |-> g.message]]
             ELSE IF staticMsg # ""
             THEN [ok |-> TRUE, tried |-> TRUE, err |-> TRUE, static |-> TRUE,
                   msg |-> [src |-> "static", static |-> staticMsg, gen |-> <<>>]]
             ELSE [ok |-> FALSE, tried |-> TRUE, err |-> TRUE, static |-> TRUE,
                   msg |-> NoMsg]
        ELSE IF staticMsg # ""
        THEN [ok |-> TRUE, tried |-> FALSE, err |-> FALSE, static |-> TRUE,
              msg |-> [src |-> "static", static |-> staticMsg, gen |-> <<>>]]
        ELSE [ok |-> FALSE, tried |-> FALSE, err |-> FALSE, static |-> TRUE,
              msg |-> NoMsg]

MessageStep(run, creds, reply) ==
    LET m     == ResolveMessage(creds, run.task.StaticMsg, reply)
        calls == (IF m.tried THEN {"GenerateCommitMessage"} ELSE {})
                 \cup (IF m.static THEN {"StaticMsg"} ELSE {})
        r1    == [run EXCEPT !.gen = [tried |-> m.tried, err |-> m.err,
                                      message |-> m.msg.gen],
                             !.msg = m.msg]
    IN  IF m.ok THEN [r1 EXCEPT !.pc = "commit", !.did = @ \cup calls]
        ELSE Done(r1, "no message", calls)

\* The commit step and what it logs
CommitStep(run, c) ==
    IF c.err = "no staged changes" THEN Done(run, "nothing to commit", {"Commit"})
    ELSE IF c.err # "" THEN Done(run, "commit error", {"Commit"})
    ELSE IF run.task.AutoPush
         THEN [run EXCEPT !.pc = "push", !.outcome = "committed",
                          !.did = @ \cup {"Commit"}]
         ELSE Done(run, "committed", {"Commit"})

\* The push step
PushStep(run, res) ==
    [Done(run, IF Push(res) THEN "push error" ELSE "pushed", {"Push"})
        EXCEPT !.pushRes = res]

----------------------------------------------------------------------------
(* The state after NewTaskRunner; the registry holds what earlier add    *)
(* commands left in it.                                                    *)

EmptyMap == [x \in {} |-> 0]

\* No pipeline runs: the repository is clean and nothing is dispatched on it.
ExecIdle ==
    /\ repo = [f \in Files |-> "clean"]
    /\ runs = EmptyMap
    /\ commits = <<>>
    /\ hasCreds = FALSE
    /\ runTask = RunTask(TRUE, FALSE, "wip", <<>>)

InitRegistries ==
    {EmptyMap,
     InsertOrReplace(EmptyMap, Task(0, "/r1", Every2s)),
     InsertOrReplace(InsertOrReplace(EmptyMap, Task(0, "/r1", Every2s)),
                     Task(0, "/r2", Every2s))}

Init ==
    /\ now = 0
    /\ tickPending = FALSE
    /\ registry \in InitRegistries
    /\ tasks = EmptyMap
    /\ lastCheck = 0
    /\ stopClosed = FALSE
    /\ pc = "new"
    /\ checkResult = "none"
    /\ inflight = EmptyMap
    /\ tickLog = <<>>
    /\ hist = EmptyMap
    /\ purged = {}
    /\ edits = 0
    /\ seen = EmptyMap
    /\ upserted = {}
    /\ ExecIdle

\* The history of the entries after a reconciliation that produced map m.
HistAfterLoad(m) ==
    [id \in DOMAIN m |->
        IF id \in DOMAIN tasks THEN hist[id]
        ELSE [createdAt |-> now, runs |-> 0, created |-> m[id].task,
              lastRun |-> now, lastEvery |-> m[id].task.Every]]

PurgedAfterLoad(r) ==
    IF r.err THEN purged ELSE (purged \cup DOMAIN tasks) \ RegIDs(registry)

SeenAfterLoad(r) == IF r.err THEN seen ELSE registry

----------------------------------------------------------------------------
(* Registry operations, run by other processes (cmd/commands.go) *)

AddTask ==
    /\ edits < MaxEdits
    /\ edits' = edits + 1
    /\ \E t \in TaskInputs :
          /\ MaxOf(RegIDs(registry)) + 1 <= MaxID
          /\ registry' = InsertOrReplace(registry, t)
          /\ purged' = purged \ {MaxOf(RegIDs(registry)) + 1}
          /\ upserted' = IF \E id \in RegIDs(registry) : registry[id].Path = t.Path
                         THEN upserted \cup {t.Path} ELSE upserted
    /\ UNCHANGED <<now, tickPending, tasks, lastCheck, stopClosed, pc,
                   checkResult, inflight, tickLog, hist, seen, execVars>>

RemoveTask ==
    /\ edits < MaxEdits
    /\ edits' = edits + 1
    /\ \E p \in Paths :
          /\ \E id \in RegIDs(registry) : registry[id].Path = p
          /\ registry' = DeleteWhere(registry, {id \in RegIDs(registry) : registry[id].Path = p})
          /\ upserted' = upserted \ {p}
    /\ UNCHANGED <<now, tickPending, tasks, lastCheck, stopClosed, pc,
                   checkResult, inflight, tickLog, hist, purged, seen, execVars>>

RemoveTaskByID ==
    /\ edits < MaxEdits
    /\ edits' = edits + 1
    /\ \E id \in RegIDs(registry) :
          /\ registry' = DeleteWhere(registry, {id})
          /\ upserted' = upserted \ {registry[id].Path}
    /\ UNCHANGED <<now, tickPending, tasks, lastCheck, stopClosed, pc,
                   checkResult, inflight, tickLog, hist, purged, seen, execVars>>

----------------------------------------------------------------------------
(* TaskRunner.Start, Stop and run *)

\* Start beginning the loop although the first loadTasks failed.
StartAnyway ==
    /\ pc = "new"
    /\ \E fail \in BOOLEAN :
          LET r == loadTasks(GetAllTasks(registry, fail), tasks, lastCheck, now)
          IN  /\ tasks' = r.tasks
              /\ lastCheck' = r.lastCheck
              /\ checkResult' = IF r.err THEN "err" ELSE "ok"
              /\ pc' = "select"
              /\ hist' = HistAfterLoad(r.tasks)
              /\ purged' = PurgedAfterLoad(r)
              /\ seen' = SeenAfterLoad(r)
              /\ upserted' = IF r.err THEN upserted ELSE {}
    /\ UNCHANGED <<now, tickPending, registry, stopClosed, inflight, tickLog, edits, execVars>>

Start ==
    /\ pc = "new"
    /\ \E fail \in BOOLEAN :
          LET r == loadTasks(GetAllTasks(registry, fail), tasks, lastCheck, now)
          IN  /\ tasks' = r.tasks
              /\ lastCheck' = r.lastCheck
              /\ checkResult' = IF r.err THEN "err" ELSE "ok"
              /\ pc' = IF r.err THEN "failed" ELSE "select"
              /\ hist' = HistAfterLoad(r.tasks)
              /\ purged' = PurgedAfterLoad(r)
              /\ seen' = SeenAfterLoad(r)
              /\ upserted' = IF r.err THEN upserted ELSE {}
    /\ UNCHANGED <<now, tickPending, registry, stopClosed, inflight, tickLog, edits, execVars>>

Stop ==
    /\ pc \in {"select", "check", "process", "exited"}
    /\ ~stopClosed
    /\ stopClosed' = TRUE
    /\ UNCHANGED <<now, tickPending, registry, tasks, lastCheck, pc,
                   checkResult, inflight, tickLog, hist, purged, edits, seen, upserted, execVars>>

\* The ticker fires: one period passes and a tick is put in ticker.C.  The
\* loop is then waiting in select with nothing to receive: a pending tick
\* or a closed stopCh is received before the period is over.
ClockTick(max) ==
    /\ pc = "select"
    /\ ~tickPending
    /\ ~stopClosed
    /\ now + TickPeriod <= max
    /\ now' = now + TickPeriod
    /\ tickPending' = TRUE
    /\ UNCHANGED <<registry, tasks, lastCheck, stopClosed, pc, checkResult,
                   inflight, tickLog, hist, purged, edits, seen, upserted, execVars>>

\* select, case <-ticker.C
runTick ==
    /\ pc = "select"
    /\ tickPending
    /\ tickPending' = FALSE
    /\ pc' = "check"
    /\ tickLog' = <<>>
    /\ UNCHANGED <<now, registry, tasks, lastCheck, stopClosed, checkResult,
                   inflight, hist, purged, edits, seen, upserted, execVars>>

\* select, case <-r.stopCh
runStop ==
    /\ pc = "select"
    /\ stopClosed
    /\ pc' = "exited"
    /\ tickPending' = FALSE
    /\ UNCHANGED <<now, registry, tasks, lastCheck, stopClosed, checkResult,
                   inflight, tickLog, hist, purged, edits, seen, upserted, execVars>>

\* time.Since(r.lastCheck) <= 10*time.Second
RateLimitedInclusive(lc, t) == t - lc <= CheckWindow

\* time.Since(r.lastCheck) < 10*time.Second: no registry read in this tick
RateLimited(lc, t) == t - lc < CheckWindow

\* checkForChanges and the logging of its error in run
checkForChanges ==
    /\ pc = "check"
    /\ IF RateLimited(lastCheck, now)
       THEN /\ checkResult' = "skipped"
            /\ UNCHANGED <<tasks, lastCheck, hist, purged, seen, upserted>>
       ELSE \E fail \in BOOLEAN :
               LET r == loadTasks(GetAllTasks(registry, fail), tasks, lastCheck, now)
               IN  /\ tasks' = r.tasks
                   /\ lastCheck' = r.lastCheck
                   /\ checkResult' = IF r.err THEN "err" ELSE "ok"
                   /\ hist' = HistAfterLoad(r.tasks)
                   /\ purged' = PurgedAfterLoad(r)
                   /\ seen' = SeenAfterLoad(r)
                   /\ upserted' = IF r.err THEN upserted ELSE {}
    /\ pc' = "process"
    /\ UNCHANGED <<now, tickPending, registry, stopClosed, inflight, tickLog, edits, execVars>>

\* processTasks running the executions itself: it goes on only when none
\* is in flight.
processTasksWaits ==
    /\ pc = "process"
    /\ inflight = EmptyMap
    /\ \E order \in Orders(DOMAIN tasks) :
          LET r == rangeTasks(order, [tasks |-> tasks, out |-> <<>>], now)
          IN  /\ Len(r.out) <= Cardinality(FreeSlots(inflight))
              /\ tasks' = r.tasks
              /\ inflight' = spawn(r.out, inflight)
              /\ tickLog' = IDsOf(r.out)
              /\ hist' = [id \in DOMAIN r.tasks |->
                            IF \E i \in DOMAIN r.out : r.out[i].ID = id
                            THEN [hist[id] EXCEPT !.runs = @ + 1, !.lastRun = now,
                                                   !.lastEvery = tasks[id].task.Every]
                            ELSE hist[id]]
    /\ pc' = "select"
    /\ UNCHANGED <<now, tickPending, registry, lastCheck, stopClosed,
                   checkResult, purged, edits, seen, upserted, execVars>>

processTasks ==
    /\ pc = "process"
    /\ \E order \in Orders(DOMAIN tasks) :
          LET r == rangeTasks(order, [tasks |-> tasks, out |-> <<>>], now)
          IN  /\ Len(r.out) <= Cardinality(FreeSlots(inflight))
              /\ tasks' = r.tasks
              /\ inflight' = spawn(r.out, inflight)
              /\ tickLog' = IDsOf(r.out)
              /\ hist' = [id \in DOMAIN r.tasks |->
                            IF \E i \in DOMAIN r.out : r.out[i].ID = id
                            THEN [hist[id] EXCEPT !.runs = @ + 1, !.lastRun = now,
                                                   !.lastEvery = tasks[id].task.Every]
                            ELSE hist[id]]
    /\ pc' = "select"
    /\ UNCHANGED <<now, tickPending, registry, lastCheck, stopClosed,
                   checkResult, purged, edits, seen, upserted, execVars>>

\* executeTask taking the entry of its task out of the schedule when it
\* returns.
executeTaskWriteBack ==
    /\ \E e \in DOMAIN inflight :
          /\ inflight' = [x \in DOMAIN inflight \ {e} |-> inflight[x]]
          /\ tasks' = [id \in DOMAIN tasks \ {inflight[e].task.ID} |-> tasks[id]]
    /\ UNCHANGED <<now, tickPending, registry, lastCheck, stopClosed,
                   pc, checkResult, tickLog, hist, purged, edits, seen, upserted, execVars>>

\* An executeTask goroutine returns.
executeTask ==
    /\ \E e \in DOMAIN inflight :
          inflight' = [x \in DOMAIN inflight \ {e} |-> inflight[x]]
    /\ UNCHANGED <<now, tickPending, registry, tasks, lastCheck, stopClosed,
                   pc, checkResult, tickLog, hist, purged, edits, seen, upserted, execVars>>

\* The scheduler while nobody stops it
Next ==
    \/ AddTask
    \/ RemoveTask
    \/ RemoveTaskByID
    \/ Start
    \/ ClockTick(MaxTime)
    \/ runTick
    \/ checkForChanges
    \/ processTasks
    \/ executeTask

Spec == Init /\ [][Next]_vars

----------------------------------------------------------------------------------------------------------------------------------------
(* The scheduler with its scheduling: the ticker keeps firing up to the    *)
(* last tick of the model and the goroutine of run handles every tick to   *)
(* its end.  Executions need not return: only when processTasks needs more *)
(* slots than the model has left does one of them return, since the code   *)
(* starts its goroutines without a limit.                                  *)

MaxLiveTime == 11
MaxLiveEdits == 1

\* The scheduler loop is between Start and its return
Running == pc \in {"select", "check", "process"}

\* The due entries of a tick: each takes one goroutine
DueCount == Cardinality({id \in DOMAIN tasks : TaskDue(tasks[id], now)})

\* processTasks is waiting for a slot of the model: "go r.executeTask"
\* itself never waits
SlotsShort == pc = "process" /\ DueCount > Cardinality(FreeSlots(inflight))

\* The registry commands, run a bounded number of times
LiveEdit ==
    /\ edits < MaxLiveEdits
    /\ (AddTask \/ RemoveTask \/ RemoveTaskByID)

NextLive ==
    \/ LiveEdit
    \/ Start
    \/ ClockTick(MaxLiveTime)
    \/ runTick
    \/ checkForChanges
    \/ processTasks
    \/ executeTask

FairLoop ==
    /\ WF_vars(ClockTick(MaxLiveTime))
    /\ WF_vars(runTick)
    /\ WF_vars(checkForChanges)
    /\ WF_vars(processTasks)
    /\ WF_vars(SlotsShort /\ executeTask)

SpecLive == Init /\ [][NextLive]_vars /\ FairLoop

\* The scheduler with the stop signal of RunCommand
NextStop ==
    \/ AddTask
    \/ RemoveTask
    \/ RemoveTaskByID
    \/ Start
    \/ Stop
    \/ ClockTick(MaxTime)
    \/ runTick
    \/ runStop
    \/ checkForChanges
    \/ processTasks
    \/ executeTask

SpecStop == Init /\ [][NextStop]_vars

----------------------------------------------------------------------------
(* The steady registry: two valid records that nobody edits *)

SteadyRegistry ==
    InsertOrReplace(InsertOrReplace(EmptyMap, Task(0, "/r1", Every1m)),
                    Task(0, "/r2", Every2m))

InitSteady ==
    /\ now = 0
    /\ tickPending = FALSE
    /\ registry = SteadyRegistry
    /\ tasks = EmptyMap
    /\ lastCheck = 0
    /\ stopClosed = FALSE
    /\ pc = "new"
    /\ checkResult = "none"
    /\ inflight = EmptyMap
    /\ tickLog = <<>>
    /\ hist = EmptyMap
    /\ purged = {}
    /\ edits = 0
    /\ seen = EmptyMap
    /\ upserted = {}
    /\ ExecIdle

NextSteady ==
    \/ Start
    \/ ClockTick(MaxSteadyTime)
    \/ runTick
    \/ checkForChanges
    \/ processTasks
    \/ executeTask

SpecSteady == InitSteady /\ [][NextSteady]_vars

----------------------------------------------------------------------------
(* The executions of executeTask on one repository *)

MaxRuns == 2

\* The scheduler is not looked at.
SchedIdle ==
    /\ now = 0
    /\ tickPending = FALSE
    /\ registry = EmptyMap
    /\ tasks = EmptyMap
    /\ lastCheck = 0
    /\ stopClosed = FALSE
    /\ pc = "select"
    /\ checkResult = "ok"
    /\ inflight = EmptyMap
    /\ tickLog = <<>>
    /\ hist = EmptyMap
    /\ purged = {}
    /\ edits = 0
    /\ seen = EmptyMap
    /\ upserted = {}

\* What the developer left in the repository
InitRepos == [Files -> {"clean", "untracked", "modified", "staged"}]

InitExec ==
    /\ SchedIdle
    /\ repo \in InitRepos
    /\ runs = EmptyMap
    /\ commits = <<>>
    /\ hasCreds \in BOOLEAN
    /\ runTask \in RunTasks

\* go r.executeTask(state.task): the goroutine gets a copy of the record
goExecuteTask ==
    /\ Cardinality(DOMAIN runs) < MaxRuns
    /\ runs' = runs @@ ((Cardinality(DOMAIN runs) + 1) :> NewRun(runTask))
    /\ UNCHANGED <<schedVars, repo, commits, hasCreds, runTask>>

taskDetect ==
    \E r \in DOMAIN runs, io \in {"ok", "open", "status"} :
        /\ runs[r].pc = "detect"
        /\ runs' = [runs EXCEPT ![r] = DetectStep(runs[r], repo, io)]
        /\ UNCHANGED <<schedVars, repo, commits, hasCreds, runTask>>

taskStage ==
    \E r \in DOMAIN runs, fail \in BOOLEAN :
        /\ runs[r].pc = "stage"
        /\ LET s == StageStep(runs[r], repo, fail)
           IN  /\ runs' = [runs EXCEPT ![r] = s.run]
               /\ repo' = s.repo
        /\ UNCHANGED <<schedVars, commits, hasCreds, runTask>>

taskDiff ==
    \E r \in DOMAIN runs, fail \in BOOLEAN :
        /\ runs[r].pc = "diff"
        /\ runs' = [runs EXCEPT ![r] = DiffStep(runs[r], fail)]
        /\ UNCHANGED <<schedVars, repo, commits, hasCreds, runTask>>

taskMessage ==
    \E r \in DOMAIN runs,
       reply \in {[err |-> TRUE, content |-> <<>>]}
                 \cup {[err |-> FALSE, content |-> c] : c \in Replies} :
        /\ runs[r].pc = "message"
        /\ runs' = [runs EXCEPT ![r] = MessageStep(runs[r], hasCreds, reply)]
        /\ UNCHANGED <<schedVars, repo, commits, hasCreds, runTask>>

taskCommit ==
    \E r \in DOMAIN runs, fail \in BOOLEAN, allowEmpty \in BOOLEAN :
        /\ runs[r].pc = "commit"
        /\ LET c == Commit(repo, fail, allowEmpty)
           IN  /\ runs' = [runs EXCEPT ![r] = CommitStep(runs[r], c)]
               /\ repo' = c.repo
               /\ commits' = IF c.err # "" THEN commits
                             ELSE Append(commits,
                                     [run |-> r, msg |-> runs[r].msg,
                                      paths |-> c.paths, pushed |-> FALSE])
        /\ UNCHANGED <<schedVars, hasCreds, runTask>>

\* repo.Push: an error, or every commit of HEAD is on the remote afterwards
taskPush ==
    \E r \in DOMAIN runs, fail \in BOOLEAN :
        /\ runs[r].pc = "push"
        /\ LET res == IF fail THEN "error"
                      ELSE IF \A i \in DOMAIN commits : commits[i].pushed
                      THEN "uptodate" ELSE "ok"
           IN  /\ runs' = [runs EXCEPT ![r] = PushStep(runs[r], res)]
               /\ commits' = IF fail THEN commits
                             ELSE [i \in DOMAIN commits |->
                                      [commits[i] EXCEPT !.pushed = TRUE]]
        /\ UNCHANGED <<schedVars, repo, hasCreds, runTask>>

NextExec ==
    \/ goExecuteTask
    \/ taskDetect
    \/ taskStage
    \/ taskDiff
    \/ taskMessage
    \/ taskCommit
    \/ taskPush

SpecExec == InitExec /\ [][NextExec]_vars

----------------------------------------------------------------------------
(* Properties *)

\* The tick of the current second has been handled completely.
TickHandled == pc = "select" /\ ~tickPending

\* A step that ran loadTasks to a successful end: in Start, or in a tick.
ReconcileStep ==
    \/ pc = "new" /\ pc' = "select"
    \/ pc = "check" /\ pc' = "process" /\ checkResult' = "ok"

\* A step that is one call of processTasks.
ProcessStep == pc = "process" /\ pc' = "select"

InTickLog(id) == \E i \in DOMAIN tickLog : tickLog[i] = id

Interval(task) == ParseDuration(task.Every)

\* C1: a successful reconciliation, in Start or in a later tick, gives every
\* record without a live entry whose interval parses an entry under the
\* record's ID with nextRun = reconciliation time + interval.
C1_NewEntryNextRun ==
    [][ReconcileStep =>
         \A id \in RegIDs(registry) \ DOMAIN tasks :
            Interval(registry[id]).ok =>
               /\ id \in DOMAIN tasks'
               /\ tasks'[id].task = registry[id]
               /\ tasks'[id].nextRun = now + Interval(registry[id]).d]_vars

\* An entry from the initial reconciliation next to one that a later
\* reconciliation has just created.
C1_Witness ==
    /\ pc = "process" /\ checkResult = "ok"
    /\ \E i, j \in DOMAIN tasks :
          /\ hist[i].createdAt = 0
          /\ hist[j].createdAt = now /\ now > 0
          /\ tasks[j].nextRun = now + Interval(tasks[j].task).d

C4_RemovedNotDispatched ==
    \A id \in purged :
       /\ id \notin DOMAIN tasks
       /\ ~InTickLog(id)
       /\ id \notin RegIDs(registry)

\* A live entry was removed by a reconciliation and a later tick has been
\* handled.
C4_Witness ==
    /\ purged # {}
    /\ TickHandled
    /\ now > lastCheck
    /\ tasks # EmptyMap

\* C5: a reconciliation that finds a record for an ID with a live entry
\* stores that record in the entry and keeps its nextRun; a dispatch
\* advances nextRun by the interval of the record stored then.
C5_UpdateKeepsNextRun ==
    [][/\ (pc = "check" /\ pc' = "process" /\ checkResult' = "ok") =>
            \A id \in DOMAIN tasks \cap RegIDs(registry) :
               /\ id \in DOMAIN tasks'
               /\ tasks'[id].task = registry[id]
               /\ tasks'[id].nextRun = tasks[id].nextRun
       /\ ProcessStep =>
            \A id \in DOMAIN tasks \cap DOMAIN tasks' :
               tasks'[id].nextRun # tasks[id].nextRun =>
                  /\ \E i \in DOMAIN tickLog' : tickLog'[i] = id
                  /\ tasks'[id].nextRun = now + Interval(tasks[id].task).d]_vars

\* An entry whose record was replaced by one with another interval has
\* just been dispatched and rescheduled with the new interval.
C5_Witness ==
    /\ TickHandled
    /\ \E id \in DOMAIN tasks :
          /\ tasks[id].task.Every # hist[id].created.Every
          /\ Interval(tasks[id].task).d # Interval(hist[id].created).d
          /\ InTickLog(id)
          /\ tasks[id].nextRun = now + Interval(tasks[id].task).d

\* C6: one call of processTasks dispatches no task ID twice.
C6_AtMostOncePerTick ==
    \A i, j \in DOMAIN tickLog : i # j => tickLog[i] # tickLog[j]

\* Two entries were dispatched in one tick and one of them was dropped
\* from the schedule during the iteration.
C6_Witness ==
    /\ TickHandled
    /\ Len(tickLog) = 2
    /\ \E i \in DOMAIN tickLog : tickLog[i] \notin DOMAIN tasks
    /\ \E i \in DOMAIN tickLog : tickLog[i] \in DOMAIN tasks

\* C7: once Stop has returned the loop starts no tick, reconciles nothing
\* and dispatches nothing.
C7_StopTerminal ==
    [][stopClosed =>
         /\ ~(pc = "select" /\ pc' = "check")
         /\ tasks' = tasks
         /\ lastCheck' = lastCheck
         /\ DOMAIN inflight' \subseteq DOMAIN inflight]_vars

\* C8: a due entry is dispatched although an execution of the same path is
\* still in flight.
C8_NoExclusivity ==
    [][ProcessStep =>
         \A id \in DOMAIN tasks :
            (/\ now > tasks[id].nextRun
             /\ \E e \in DOMAIN inflight : inflight[e].task.Path = tasks[id].task.Path) =>
               \E e \in DOMAIN inflight' \ DOMAIN inflight :
                  inflight'[e].task = tasks[id].task]_vars

\* Two executions of one path are in flight.
C8_Witness ==
    \E e1, e2 \in DOMAIN inflight :
       /\ e1 # e2
       /\ inflight[e1].task.Path = inflight[e2].task.Path

\* C9: the record an execution works with stays what it was at dispatch for
\* as long as the execution is in flight.
C9_SnapshotStable ==
    [][\A e \in DOMAIN inflight \cap DOMAIN inflight' :
          ExecTask(e, inflight', tasks') = ExecTask(e, inflight, tasks)]_vars

\* An execution is in flight while the entry it came from holds another
\* record, and another execution while its entry is gone.
C9_Witness ==
    /\ \E e \in DOMAIN inflight :
          LET t == ExecTask(e, inflight, tasks)
          IN  /\ t.ID \in DOMAIN tasks
              /\ tasks[t.ID].task # t
              /\ tasks[t.ID].task.Path = t.Path

\* C10: a reconciliation whose registry read fails leaves the schedule and
\* lastCheck as they were; any other reconciliation applies the whole
\* merge: additions, updates in place and removals.
C10_AllOrNothing ==
    [][(\/ pc = "new" /\ pc' # "new"
        \/ pc = "check" /\ pc' = "process" /\ checkResult' # "skipped") =>
         IF checkResult' = "err"
         THEN tasks' = tasks /\ lastCheck' = lastCheck
         ELSE /\ lastCheck' = now
              /\ DOMAIN tasks' =
                    {id \in RegIDs(registry) :
                        id \in DOMAIN tasks \/ Interval(registry[id]).ok}
              /\ \A id \in DOMAIN tasks' :
                    /\ tasks'[id].task = registry[id]
                    /\ tasks'[id].nextRun =
                          IF id \in DOMAIN tasks THEN tasks[id].nextRun
                          ELSE now + Interval(registry[id]).d]_vars

\* A reconciliation in a tick has failed while the registry differed from
\* the schedule.
C10_Witness ==
    /\ pc = "process" /\ checkResult = "err"
    /\ tasks # EmptyMap
    /\ \E id \in DOMAIN tasks :
          id \notin RegIDs(registry) \/ registry[id] # tasks[id].task
    /\ \E id \in RegIDs(registry) : id \notin DOMAIN tasks

\* A step that is one call of checkForChanges in a tick.
CheckStep == pc = "check" /\ pc' = "process"

\* C11: a registry read error in a tick's reconciliation leaves the schedule
\* and lastCheck alone and the loop goes on to processTasks; that
\* processTasks dispatches every due entry of the schedule and the loop
\* returns to its select; the next tick's checkForChanges reads the
\* registry again.
C11_ReadErrorOnlyLogged ==
    [][/\ (CheckStep /\ checkResult' = "err") =>
             tasks' = tasks /\ lastCheck' = lastCheck
       /\ (ProcessStep /\ checkResult = "err") =>
             /\ ~stopClosed' /\ pc' = "select"
             /\ \A id \in DOMAIN tasks :
                   TaskDue(tasks[id], now) =>
                      \E i \in DOMAIN tickLog' : tickLog'[i] = id
       /\ (CheckStep /\ checkResult = "err") => checkResult' # "skipped"]_vars

\* The reconciliation failed in two ticks in a row, and the second of them
\* dispatched a due entry.
C11_Witness ==
    /\ TickHandled /\ checkResult = "err"
    /\ now - lastCheck > CheckWindow
    /\ tickLog # <<>>

\* C12: a tick reads the registry exactly when lastCheck is 10 seconds or
\* more in the past; a tick that does not read leaves the schedule and
\* lastCheck alone; a successful read sets lastCheck to the time of the
\* tick, so lastCheck never advances by less than 10 seconds.
C12_RateLimited ==
    [][/\ CheckStep =>
             /\ checkResult' # "skipped" <=> now - lastCheck >= CheckWindow
             /\ checkResult' = "skipped" => tasks' = tasks /\ lastCheck' = lastCheck
             /\ checkResult' = "ok" => lastCheck' = now
       /\ lastCheck' # lastCheck => lastCheck' - lastCheck >= CheckWindow]_vars

\* A tick has reconciled exactly 10 seconds after the reconciliation of
\* Start, after ticks that skipped it.
C12_Witness ==
    /\ pc = "process" /\ checkResult = "ok"
    /\ lastCheck = now /\ now = CheckWindow

\* C13 as stated: once a reconciliation has completed, the live schedule
\* holds an entry for exactly the IDs that reconciliation read.
C13_EntryIffRecord ==
    pc \notin {"new", "failed"} => DOMAIN tasks = DOMAIN seen

\* C13: every entry of the live schedule belongs to an ID read by the most
\* recent completed reconciliation and holds the record read then; an ID
\* read then has no entry only if the interval of the record read then
\* does not parse.
C13_EntryIffParseableRecord ==
    /\ DOMAIN tasks \subseteq DOMAIN seen
    /\ \A id \in DOMAIN tasks : tasks[id].task = seen[id]
    /\ \A id \in DOMAIN seen \ DOMAIN tasks : ~Interval(seen[id]).ok

\* After a reconciliation in a tick, one ID it read has an entry and
\* another one, whose interval does not parse, has none.
C13_Witness ==
    /\ lastCheck >= CheckWindow
    /\ tasks # EmptyMap
    /\ \E id \in DOMAIN seen \ DOMAIN tasks : ~Interval(seen[id]).ok

\* C14: the nextRun of an entry changes only in a processTasks that
\* dispatches the entry as due, and every change makes it strictly larger.
C14_NextRunMonotone ==
    [][\A id \in DOMAIN tasks \cap DOMAIN tasks' :
          tasks'[id].nextRun # tasks[id].nextRun =>
             /\ ProcessStep
             /\ TaskDue(tasks[id], now)
             /\ \E i \in DOMAIN tickLog' : tickLog'[i] = id
             /\ tasks'[id].nextRun > tasks[id].nextRun]_vars

\* C15: a reconciliation gives no entry to a record without an entry whose
\* interval does not parse, and still gives every other row it read its
\* entry or its update; entries appear in reconciliations only, and
\* processTasks dispatches only records of entries.
C15_UnparseableSkipped ==
    [][/\ ReconcileStep =>
             \A id \in RegIDs(registry) \ DOMAIN tasks :
                IF Interval(registry[id]).ok
                THEN id \in DOMAIN tasks'
                ELSE /\ id \notin DOMAIN tasks'
                     /\ \A o \in RegIDs(registry) \ {id} :
                           (o \in DOMAIN tasks \/ Interval(registry[o]).ok) =>
                              o \in DOMAIN tasks' /\ tasks'[o].task = registry[o]
       /\ ~ReconcileStep => DOMAIN tasks' \subseteq DOMAIN tasks
       /\ ProcessStep =>
             \A i \in DOMAIN tickLog' : tickLog'[i] \in DOMAIN tasks]_vars

\* A reconciliation after that of Start has read a row whose interval does
\* not parse and, after it, a new row that it scheduled.
C15_Witness ==
    /\ lastCheck >= CheckWindow
    /\ \E i, j \in DOMAIN seen :
          /\ i < j
          /\ ~Interval(seen[i]).ok /\ i \notin DOMAIN tasks
          /\ j \in DOMAIN tasks /\ hist[j].createdAt = lastCheck

\* The commits run r created
CommitsOf(r) == {i \in DOMAIN commits : commits[i].run = r}

\* The execution has left the choice of the commit message behind.
Resolved(run) ==
    run.pc \in {"commit", "push"}
    \/ run.outcome \in {"no message", "nothing to commit", "commit error",
                        "committed", "pushed", "push error"}

\* C16: the generator is called exactly when credentials are configured;
\* its message is used when it succeeds, without a look at the static
\* message; when it fails or was not called the static message is used if
\* it is not empty; otherwise the execution ends without a Commit call, a
\* Push call or a commit.  A commit carries the message chosen.
C16_MessageResolution ==
    \A r \in DOMAIN runs :
       LET run == runs[r]
           static == run.task.StaticMsg
       IN  Resolved(run) =>
              /\ ("GenerateCommitMessage" \in run.did) <=> hasCreds
              /\ run.gen.tried <=> hasCreds
              /\ IF hasCreds /\ ~run.gen.err
                 THEN /\ run.msg = [src |-> "llm", static |-> "", gen |-> run.gen.message]
                      /\ "StaticMsg" \notin run.did
                      /\ run.outcome # "no message"
                 ELSE IF static # ""
                 THEN /\ run.msg = [src |-> "static", static |-> static, gen |-> <<>>]
                      /\ run.outcome # "no message"
                 ELSE /\ run.outcome = "no message"
                      /\ run.did \cap {"Commit", "Push"} = {}
                      /\ CommitsOf(r) = {}
              /\ \A i \in CommitsOf(r) : commits[i].msg = run.msg

\* With credentials and a static message configured, one execution has
\* committed with the static message after the generator failed, and
\* another one has taken the generator's message.
C16_Witness ==
    /\ hasCreds
    /\ \E r1, r2 \in DOMAIN runs :
          /\ runs[r1].gen.tried /\ runs[r1].gen.err
          /\ runs[r1].msg.src = "static" /\ CommitsOf(r1) # {}
          /\ runs[r2].task.StaticMsg # ""
          /\ runs[r2].msg.src = "llm" /\ runs[r2].pc = "commit"

\* C17: an execution that found no change, or that has auto-add disabled
\* and found nothing staged, has ended without a call of GetDiff, of the
\* generator, of Commit or of Push, without a look at the static message
\* and without a commit; the first kind has not reached the staging
\* decision either.
C17_EarlyExit ==
    \A r \in DOMAIN runs :
       LET run == runs[r]
       IN  /\ (run.hasChanges = "no"
               \/ (~run.task.AutoAdd /\ run.hasStaged = "no")) =>
                  /\ run.pc = "done"
                  /\ run.did \cap {"GetDiff", "GenerateCommitMessage", "StaticMsg",
                                   "Commit", "Push"} = {}
                  /\ run.msg = NoMsg
                  /\ CommitsOf(r) = {}
           /\ run.hasChanges = "no" =>
                  run.did \cap {"StageChanges", "HasStagedChanges"} = {}

\* An execution with auto-add disabled has found changes, none of them
\* staged, and has ended at the staging decision; the changes are still
\* in the repository.
C17_Witness ==
    /\ HasChanges(repo)
    /\ \E r \in DOMAIN runs :
          /\ ~runs[r].task.AutoAdd
          /\ runs[r].hasChanges = "yes" /\ runs[r].hasStaged = "no"
          /\ runs[r].outcome = "no staged changes, skipping"

\* C18: a commit step that runs while the index holds no change creates no
\* commit, ends the execution with the benign "nothing to commit" outcome
\* and is not followed by a push.
C18_NothingStagedNoCommit ==
    [][\A r \in DOMAIN runs :
          (runs[r].pc = "commit" /\ runs'[r].pc # "commit"
           /\ StagedPaths(repo) = {}) =>
              /\ commits' = commits
              /\ runs'[r].pc = "done"
              /\ runs'[r].outcome = "nothing to commit"]_vars

\* C19: Push has been called only by an execution whose record has
\* auto-push and that has created a commit; a push that succeeded or found
\* the remote up to date ends the execution as pushed, any other result as
\* a push error; without auto-push Push is not called.
C19_PushOnlyAfterCommit ==
    \A r \in DOMAIN runs :
       LET run == runs[r]
       IN  /\ ("Push" \in run.did \/ run.pc = "push") =>
                 run.task.AutoPush /\ CommitsOf(r) # {}
           /\ run.pushRes \in {"ok", "uptodate"} => run.outcome = "pushed"
           /\ run.pushRes = "error" => run.outcome = "push error"
           /\ run.pushRes # "none" <=> "Push" \in run.did
           /\ ~run.task.AutoPush => "Push" \notin run.did

\* An execution has committed and its push found the remote up to date,
\* another one's push has sent the commits.
C19_Witness ==
    \E r1, r2 \in DOMAIN runs :
       /\ runs[r1].pushRes = "uptodate" /\ runs[r1].outcome = "pushed"
       /\ CommitsOf(r1) # {}
       /\ runs[r2].pushRes = "ok" /\ runs[r2].outcome = "pushed"

\* The path matches one of the patterns, trimmed, empty ones ignored.
Excluded(f, excludePatterns) ==
    \E i \in DOMAIN Split(excludePatterns) :
       LET pattern == TrimSpace(Split(excludePatterns)[i])
       IN  pattern # <<>> /\ ~CompileError(pattern) /\ GlobMatch(pattern, FilePath(f))

\* C20: no commit created by an execution with auto-add records a path
\* that matches one of the exclude patterns of its record.
C20_NoExcludedPathCommitted ==
    \A i \in DOMAIN commits :
       LET task == runs[commits[i].run].task
       IN  task.AutoAdd =>
              \A f \in commits[i].paths : ~Excluded(f, task.ExcludePatterns)

\* A step in which an executeTask goroutine ends, whatever it did.
ExecutionStep == inflight' # inflight /\ ~ProcessStep

\* C21: the end of an execution, failed or not, changes neither the live
\* schedule nor lastCheck nor where the loop is nor stopCh nor the clock;
\* a processTasks gives every due entry a new goroutine whatever
\* executions are still in flight.
C21_ExecutionContained ==
    [][/\ ExecutionStep =>
             UNCHANGED <<tasks, lastCheck, pc, stopClosed, checkResult,
                         registry, now, tickPending>>
       /\ ProcessStep =>
             \A id \in DOMAIN tasks :
                TaskDue(tasks[id], now) =>
                   \E e \in DOMAIN inflight' \ DOMAIN inflight :
                      inflight'[e].task = tasks[id].task]_vars

\* An execution started in an earlier tick has not returned, and the tick
\* just handled has dispatched another task.
C21_Witness ==
    /\ TickHandled
    /\ tickLog # <<>>
    /\ \E e \in DOMAIN inflight : ~InTickLog(inflight[e].task.ID)

\* C22: before Start nothing ticks and the schedule is empty; Start goes to
\* the loop exactly when its loadTasks succeeded, and then the schedule
\* holds an entry for every record whose interval parses before any tick
\* is taken; after a failed Start the scheduler stays where it is: no
\* tick, no reconciliation, no dispatch, no entry.
C22_StartReconcilesFirst ==
    [][/\ pc = "new" =>
             /\ tasks = EmptyMap /\ ~tickPending /\ inflight = EmptyMap
             /\ pc' \in {"new", "failed", "select"}
             /\ pc' = "failed" => checkResult' = "err" /\ tasks' = EmptyMap
             /\ pc' = "select" =>
                   /\ checkResult' = "ok"
                   /\ ~tickPending' /\ tickLog' = <<>> /\ now' = now
                   /\ DOMAIN tasks' =
                         {id \in RegIDs(registry) : Interval(registry[id]).ok}
       /\ pc = "failed" =>
             /\ pc' = "failed"
             /\ UNCHANGED <<tasks, lastCheck, checkResult, now, tickPending,
                            inflight, tickLog>>
             /\ tasks = EmptyMap /\ inflight = EmptyMap]_vars

\* Start has failed although the registry, which a registry command has
\* written to, holds a record with a valid interval.
C22_Witness ==
    /\ pc = "failed"
    /\ edits > 0
    /\ \E id \in RegIDs(registry) : Interval(registry[id]).ok

\* C23: a processTasks that finds an entry due whose interval does not
\* parse hands it to a goroutine once and deletes it; every other entry is
\* treated in that call as without it: dispatched and rescheduled if due,
\* left alone if not; an ID without an entry gets one only in a
\* reconciliation that reads its record with an interval that parses, and
\* processTasks dispatches entries only.
C23_UnparseableDropped ==
    [][/\ ProcessStep =>
             /\ \A i \in DOMAIN tickLog' : tickLog'[i] \in DOMAIN tasks
             /\ \A id \in DOMAIN tasks :
                   (TaskDue(tasks[id], now) /\ ~Interval(tasks[id].task).ok) =>
                      /\ id \notin DOMAIN tasks'
                      /\ Cardinality({i \in DOMAIN tickLog' : tickLog'[i] = id}) = 1
                      /\ \A o \in DOMAIN tasks \ {id} :
                            /\ TaskDue(tasks[o], now) <=>
                                  \E i \in DOMAIN tickLog' : tickLog'[i] = o
                            /\ (TaskDue(tasks[o], now) /\ Interval(tasks[o].task).ok) =>
                                  /\ o \in DOMAIN tasks'
                                  /\ tasks'[o].nextRun = now + Interval(tasks[o].task).d
                            /\ ~TaskDue(tasks[o], now) =>
                                  o \in DOMAIN tasks' /\ tasks'[o] = tasks[o]
       /\ \A id \in DOMAIN tasks' \ DOMAIN tasks :
             ReconcileStep /\ Interval(registry[id]).ok]_vars

\* A tick has dispatched two entries and dropped one of them, whose record
\* had been replaced by one with an interval that does not parse.
C23_Witness ==
    /\ TickHandled
    /\ \E id \in DOMAIN seen \ DOMAIN tasks, o \in DOMAIN tasks :
          /\ InTickLog(id) /\ InTickLog(o)
          /\ ~Interval(seen[id]).ok

\* The items of the exclude list, trimmed, without the empty ones
Patterns(excludePatterns) ==
    SelectSeq([i \in DOMAIN Split(excludePatterns) |->
                  TrimSpace(Split(excludePatterns)[i])],
              LAMBDA p : p # <<>>)

\* The list holds a pattern that does not compile.
HasInvalid(excludePatterns) ==
    \E i \in DOMAIN Patterns(excludePatterns) :
       CompileError(Patterns(excludePatterns)[i])

\* The path matches a pattern that stands before the first one that does
\* not compile.
MatchesPreceding(f, excludePatterns) ==
    LET ps == Patterns(excludePatterns)
    IN  \E i \in DOMAIN ps :
           /\ \A j \in 1..i : ~CompileError(ps[j])
           /\ GlobMatch(ps[i], FilePath(f))

\* A step in which run r goes through the staging decision.
StagingOf(r) == runs[r].pc = "stage" /\ runs'[r].pc # "stage"

\* C24 as stated: an auto-add run whose exclude list holds a pattern that
\* does not compile ends at staging, and the index differs afterwards
\* only in paths that match a pattern before the invalid one.
C24_OnlyPrecedingPatterns ==
    [][\A r \in DOMAIN runs :
          (StagingOf(r) /\ runs[r].task.AutoAdd
           /\ HasInvalid(runs[r].task.ExcludePatterns)) =>
              /\ runs'[r].outcome = "staging error"
              /\ \A f \in Files :
                    ~MatchesPreceding(f, runs[r].task.ExcludePatterns) =>
                       repo'[f] = repo[f]]_vars

\* C24: an auto-add run whose exclude list holds a pattern that does not
\* compile ends at staging without a choice of message, a Commit or a
\* Push; unless the worktree could not be read at all, every change has
\* been put in the index by then, and taken out of index and worktree
\* again are exactly the changed paths that match a pattern before the
\* invalid one.
C24_StageAllThenPreceding ==
    [][\A r \in DOMAIN runs :
          (StagingOf(r) /\ runs[r].task.AutoAdd
           /\ HasInvalid(runs[r].task.ExcludePatterns)) =>
              /\ runs'[r].outcome = "staging error"
              /\ runs'[r].pc = "done"
              /\ runs'[r].msg = NoMsg
              /\ runs'[r].did \cap {"GetDiff", "GenerateCommitMessage", "StaticMsg",
                                    "Commit", "Push"} = {}
              /\ commits' = commits
              /\ \/ repo' = repo
                 \/ repo' = [f \in Files |->
                               IF /\ f \in Status(AddGlob(repo))
                                  /\ MatchesPreceding(f, runs[r].task.ExcludePatterns)
                               THEN RemoveGlob(AddGlob(repo)[f])
                               ELSE AddGlob(repo)[f]]]_vars

\* A run has ended at the invalid pattern: x.log, which the pattern before
\* it matches, is out of the index, and a.go, which the pattern after it
\* matches, is staged.
C24_Witness ==
    /\ \E r \in DOMAIN runs :
          /\ runs[r].outcome = "staging error"
          /\ HasInvalid(runs[r].task.ExcludePatterns)
    /\ repo["x.log"] = "removed"
    /\ repo["a.go"] = "added"

\* C25: a reconciliation keeps the entry of a path whose row AddTask has
\* replaced since the reconciliation before: the entry stays under its ID,
\* stands for the same path and keeps its nextRun.
C25_UpsertUpdatesInPlace ==
    [][ReconcileStep =>
         \A id \in DOMAIN tasks :
            tasks[id].task.Path \in upserted =>
               /\ id \in DOMAIN tasks'
               /\ tasks'[id].task.Path = tasks[id].task.Path
               /\ tasks'[id].nextRun = tasks[id].nextRun]_vars

\* C26: a step of an execution whose record has auto-add disabled puts
\* nothing in the index, and a commit it creates records only paths that
\* were in the index before that step.
C26_NoAutoAddNeverStages ==
    [][\A r \in DOMAIN runs :
          (~runs[r].task.AutoAdd /\ runs'[r] # runs[r]) =>
             /\ StagedPaths(repo') \subseteq StagedPaths(repo)
             /\ \A i \in DOMAIN commits' \ DOMAIN commits :
                   commits'[i].paths \subseteq StagedPaths(repo)]_vars

\* C27: every commit the pipeline has created has a non-empty message,
\* whether it came from the generator or from the record's static message.
C27_MessageNeverEmpty ==
    \A i \in DOMAIN commits :
        /\ commits[i].msg.src # "none"
        /\ commits[i].msg.src = "llm" => commits[i].msg.gen # <<>>
        /\ commits[i].msg.src = "static" => commits[i].msg.static # ""

\* C28: the interval of every entry of the live schedule parses to a
\* duration of at least one minute.
C28_IntervalAtLeastMinute ==
    \A id \in DOMAIN tasks :
        /\ Interval(tasks[id].task).ok
        /\ Interval(tasks[id].task).d >= 60

\* C29: an entry of the live schedule stands for the same repository path
\* as long as it lives, and an entry whose path had no entry before the
\* reconciliation starts its own countdown, nextRun = now + its interval.
C29_EntryKeepsPath ==
    [][/\ \A id \in DOMAIN tasks \cap DOMAIN tasks' :
             tasks'[id].task.Path = tasks[id].task.Path
       /\ ReconcileStep =>
             \A id \in DOMAIN tasks' :
                 (\A old \in DOMAIN tasks :
                      tasks[old].task.Path # tasks'[id].task.Path) =>
                    tasks'[id].nextRun = now + Interval(tasks'[id].task).d]_vars

\* The record of id is in the registry with an interval that parses, and
\* so does the interval of the record the live entry holds
RecordStays(id) ==
    /\ id \in RegIDs(registry)
    /\ Interval(registry[id]).ok
    /\ id \in DOMAIN tasks => Interval(tasks[id].task).ok

\* C30: while the loop runs, an entry whose nextRun lies before the last
\* tick of the model and that the current tick has not dispatched is
\* dispatched by a later tick, unless its record leaves the registry or
\* stops parsing.
C30_DispatchedAgain ==
    \A id \in 1..MaxID :
        (/\ Running
         /\ id \in DOMAIN tasks
         /\ tasks[id].nextRun < MaxLiveTime
         /\ ~InTickLog(id))
        ~> (InTickLog(id) \/ ~RecordStays(id))

\* An entry has been dispatched a second time while an execution of the
\* other task has not returned.
C30_Witness ==
    /\ Running
    /\ \E id \in DOMAIN tasks :
          /\ hist[id].runs >= 2
          /\ InTickLog(id)
          /\ RecordStays(id)
          /\ \E e \in DOMAIN inflight : inflight[e].task.ID # id

\* C31: a dispatch of a live entry comes no sooner after the entry's
\* previous dispatch than the interval the entry held at that dispatch, and
\* a first dispatch no sooner after the creation of the entry than the
\* interval of the record it was created from.
C31_AtMostOncePerInterval ==
    [][ProcessStep =>
         \A id \in DOMAIN tasks :
            (\E i \in DOMAIN tickLog' : tickLog'[i] = id) =>
               now - hist[id].lastRun >= ParseDuration(hist[id].lastEvery).d]_vars

\* An entry whose record has been changed in place to another interval has
\* just been dispatched, for the second time at least.
C31_Witness ==
    /\ TickHandled
    /\ \E id \in DOMAIN tasks :
          /\ InTickLog(id)
          /\ hist[id].runs >= 2
          /\ hist[id].lastRun = now
          /\ hist[id].created.Every # tasks[id].task.Every

====
